---- MODULE Spec2Model ----
(***************************************************************************)
(* Model of scripts/zimage_server.py: the process start-up (the __main__   *)
(* block, load_model, init_mock, run_self_test) and the two request        *)
(* handlers (health, generate) of the FastAPI application, with the        *)
(* external pipeline, the file system and the wall clock as environment.   *)
(***************************************************************************)
EXTENDS Integers, Sequences, FiniteSets, TLC

\* ------------------------------------------------------------------ bounds
NReq == 2          \* POST /generate requests the server receives
MaxClock == 2      \* wall-clock ticks (half seconds) that elapse while serving

\* ------------------------------------------------------- program constants
SelfTestSize == 512
SelfTestSteps == 28
SelfTestGuidance == 4
SelfTestSeed == 42
MockSize == 64
DefaultMockDelay == 5      \* --mock-delay default 0.5 s, in tenths of a second

SelfTestPrompt == "a red circle on a white background"
SelfTestOutPath == <<"scripts/test_output.png">>
DefaultOutputDir == <<"<project>/output/zimage">>

\* ------------------------------------------------------------ input ranges
Reqs == 1..NReq
Prompts == {"a cat", "a dog"}
Widths == {512, 1024}
Heights == {512}
StepsRange == {8, 28}
GuidanceRange == {4}
OffSizes == {256}
Contents == {"pixelsA", "pixelsB"}
MockDelays == {0, DefaultMockDelay}
GivenOutputDir == <<"/data/out">>
OutputDirOptions == {"omitted", "given", "empty"}

\* GenerateRequest: the decoded request body
GenerateRequest == [prompt : Prompts, width : Widths, height : Heights,
                    steps : StepsRange, guidance_scale : GuidanceRange]

\* ------------------------------------------------------------------ values
NoImage == [kind |-> "none", w |-> 0, h |-> 0, content |-> ""]
NotAnImage == [kind |-> "other", w |-> 0, h |-> 0, content |-> ""]
Truncated == [kind |-> "truncated", w |-> 0, h |-> 0, content |-> ""]
EmptyStr == [fmt |-> "", w |-> 0, h |-> 0, content |-> ""]
EmptyPath == <<>>

\* Image.new("RGB", (64, 64), color=(100, 149, 237))
MockImage == [kind |-> "image", w |-> MockSize, h |-> MockSize, content |-> "cornflower"]

\* img.save(buf, format="PNG") followed by base64.b64encode(...).decode():
\* a lossless encoding, so the blob determines the image it was made from.
Encode(img) == [fmt |-> "b64png", w |-> img.w, h |-> img.h, content |-> img.content]

\* datetime.now().strftime("%Y%m%d_%H%M%S"): the clock cut to whole seconds
\* (the clock counts half seconds).
Strftime(t) == t \div 2

\* os.path.join(output_dir, f"{ts}_{width}x{height}.png")
SavedPath(dir, ts, width, height) == dir \o <<ts, width, height, ".png">>

GenerateResponse(image, file_path) ==
    [status |-> 200, image |-> image, mime_type |-> "image/png",
     file_path |-> file_path, detail |-> ""]

HTTPException(status_code, detail) ==
    [status |-> status_code, image |-> EmptyStr, mime_type |-> "",
     file_path |-> EmptyPath, detail |-> detail]

NoResp == [status |-> 0, image |-> EmptyStr, mime_type |-> "",
           file_path |-> EmptyPath, detail |-> ""]

NoHealth == [status |-> "", model_loaded |-> FALSE, mock |-> FALSE]

IdleHandler == [pc |-> "idle", width |-> 0, height |-> 0, img |-> NoImage,
                exc |-> "", invoked |-> FALSE, wrote |-> {}]

\* ------------------------------------------------------------- environment
\* What a call of the external pipeline can produce: it raises, it returns
\* a result with no image, or a result whose first entry is an image of the
\* requested size, an image of another size, or an object that is no image.
PipeErrors == {"CUDA out of memory"}

PipeSizes(w, h) ==
    {<<w, h>>} \cup {<<o, h>> : o \in OffSizes} \cup {<<w, o>> : o \in OffSizes}

PipeImages(w, h) ==
    {[kind |-> "image", w |-> s[1], h |-> s[2], content |-> c] :
        s \in PipeSizes(w, h), c \in Contents}
    \cup {NotAnImage}

\* pipe(prompt, width=..., height=..., ...): calling the global while it is
\* None raises TypeError.
PipeOutcomes(p, w, h) ==
    IF p = "None"
    THEN {[kind |-> "raise", exc |-> "'NoneType' object is not callable",
           img |-> NoImage]}
    ELSE
    {[kind |-> "raise", exc |-> m, img |-> NoImage] : m \in PipeErrors}
    \cup {[kind |-> "empty", exc |-> "list index out of range", img |-> NoImage]}
    \cup {[kind |-> "ok", exc |-> "", img |-> i] : i \in PipeImages(w, h)}

VARIABLES
    launch,          \* "cli": run as a script; "import": module imported, app served
    args,            \* the parsed command line
    pc,              \* position of the process
    todo,            \* start-up branches still to run
    caller,          \* who called load_model
    pipe,            \* module global pipe
    mock_mode,       \* module global mock_mode
    mock_image_b64,  \* module global mock_image_b64
    mock_delay,      \* module global mock_delay
    output_dir,      \* module global output_dir
    exit_status,     \* process exit status, -1 while running
    inits,           \* start-up modes whose initialisation ran
    loadCalls,       \* calls of load_model
    pipeLoads,       \* times pipe went from None to an object
    loadFailed,      \* load_model raised
    loadDone,        \* calls of load_model that returned
    stCall,          \* arguments of the self-test generation
    stImg,           \* image the self-test generation returned
    clock,           \* wall clock, in half seconds
    fs,              \* files written: path -> image
    handlers,        \* per request: the generate handler's frame
    resp,            \* per request: the HTTP response
    healthResp       \* body of the last GET /health response

globals == <<pipe, mock_mode, mock_image_b64, mock_delay, output_dir>>
startup == <<launch, args, todo, caller, exit_status, inits, loadCalls,
             pipeLoads, loadFailed, loadDone, stCall, stImg>>
serving == <<clock, fs, handlers, resp, healthResp>>
vars == <<pc, globals, startup, serving>>

NoCall == [prompt |-> "", width |-> 0, height |-> 0, steps |-> 0,
           guidance_scale |-> 0, seed |-> 0]

\* parser.add_argument(...) / parse_args(): the command lines considered.
\* --mock-delay is read only under --mock.
ArgSpace ==
    {a \in [self_test : BOOLEAN, mock : BOOLEAN, output_dir : OutputDirOptions,
            mock_delay : MockDelays] :
        ~a.mock => a.mock_delay = DefaultMockDelay}

ImportArgs == [self_test |-> FALSE, mock |-> FALSE, output_dir |-> "omitted",
               mock_delay |-> DefaultMockDelay]

Init ==
    /\ launch \in {"cli", "import"}
    /\ args \in (IF launch = "cli" THEN ArgSpace ELSE {ImportArgs})
    /\ pc = IF launch = "cli" THEN "main" ELSE "imported"
    /\ todo = <<>>
    /\ caller = "none"
    /\ pipe = "None"
    /\ mock_mode = FALSE
    /\ mock_image_b64 = EmptyStr
    /\ mock_delay = 0
    /\ output_dir = EmptyPath
    /\ exit_status = -1
    /\ inits = {}
    /\ loadCalls = 0
    /\ pipeLoads = 0
    /\ loadFailed = FALSE
    /\ loadDone = 0
    /\ stCall = NoCall
    /\ stImg = NoImage
    /\ clock = 0
    /\ fs = [p \in {} |-> NoImage]
    /\ handlers = [r \in Reqs |-> IdleHandler]
    /\ resp = [r \in Reqs |-> NoResp]
    /\ healthResp = NoHealth

\* sys.exit(code), or an uncaught exception ending the interpreter (status 1)
Exit(code) ==
    /\ pc' = "exited"
    /\ exit_status' = code

\* ----------------------------------------------------------------- start-up
\* The module is imported and its app object is served by an ASGI runner:
\* the __main__ block does not run and the globals keep their defaults.
AppServed ==
    /\ pc = "imported"
    /\ pc' = "serving"
    /\ UNCHANGED <<globals, startup, serving>>

\* args.output_dir
ArgOutputDir(opt) ==
    CASE opt = "omitted" -> DefaultOutputDir
      [] opt = "given" -> GivenOutputDir
      [] opt = "empty" -> EmptyPath

\* output_dir = args.output_dir; os.makedirs(output_dir, exist_ok=True)
Main_OutputDir ==
    /\ pc = "main"
    /\ output_dir' = ArgOutputDir(args.output_dir)
    /\ \E ok \in BOOLEAN :
         IF output_dir' # EmptyPath /\ ok
         THEN pc' = "select" /\ UNCHANGED exit_status
         ELSE Exit(1)
    /\ UNCHANGED <<pipe, mock_mode, mock_image_b64, mock_delay, serving,
                   launch, args, todo, caller, inits, loadCalls, pipeLoads,
                   loadFailed, loadDone, stCall, stImg>>

ModeSequence_Reordered(a) ==
    (IF a.mock THEN <<"mock">> ELSE <<>>)
    \o (IF a.self_test THEN <<"self_test">>
        ELSE IF ~a.mock THEN <<"normal">> ELSE <<>>)

\* if args.self_test: ... elif args.mock: ... else: ...
ModeSequence(a) ==
    IF a.self_test THEN <<"self_test">>
    ELSE IF a.mock THEN <<"mock">>
    ELSE <<"normal">>

Main_SelectMode ==
    /\ pc = "select"
    /\ todo' = ModeSequence(args)
    /\ pc' = "dispatch"
    /\ UNCHANGED <<globals, serving, launch, args, caller, exit_status, inits,
                   loadCalls, pipeLoads, loadFailed, loadDone, stCall, stImg>>

\* run_self_test(args.model): entry, up to its call of load_model
Main_RunSelfTest ==
    /\ pc = "dispatch" /\ todo # <<>> /\ Head(todo) = "self_test"
    /\ todo' = Tail(todo)
    /\ inits' = inits \cup {"self_test"}
    /\ caller' = "self_test"
    /\ pc' = "load_from_pretrained"
    /\ UNCHANGED <<globals, serving, launch, args, exit_status, loadCalls,
                   pipeLoads, loadFailed, loadDone, stCall, stImg>>

\* mock_delay = args.mock_delay; init_mock()
Main_InitMock ==
    /\ pc = "dispatch" /\ todo # <<>> /\ Head(todo) = "mock"
    /\ todo' = Tail(todo)
    /\ inits' = inits \cup {"mock"}
    /\ mock_delay' = args.mock_delay
    /\ mock_mode' = TRUE
    /\ mock_image_b64' = Encode(MockImage)
    /\ UNCHANGED <<pc, pipe, output_dir, serving, launch, args, caller,
                   exit_status, loadCalls, pipeLoads, loadFailed, loadDone, stCall, stImg>>

\* load_model(args.model), called from the __main__ block
Main_LoadModel ==
    /\ pc = "dispatch" /\ todo # <<>> /\ Head(todo) = "normal"
    /\ todo' = Tail(todo)
    /\ inits' = inits \cup {"normal"}
    /\ caller' = "main"
    /\ pc' = "load_from_pretrained"
    /\ UNCHANGED <<globals, serving, launch, args, exit_status, loadCalls,
                   pipeLoads, loadFailed, loadDone, stCall, stImg>>

\* uvicorn.run(app, host=args.host, port=args.port)
Main_RunServer ==
    /\ pc = "dispatch" /\ todo = <<>>
    /\ \E ok \in BOOLEAN :
         IF ok THEN pc' = "serving" /\ UNCHANGED exit_status ELSE Exit(1)
    /\ UNCHANGED <<globals, serving, launch, args, todo, caller, inits,
                   loadCalls, pipeLoads, loadFailed, loadDone, stCall, stImg>>

L_FromPretrained_Swallow ==
    /\ pc = "load_from_pretrained"
    /\ loadCalls' = loadCalls + 1
    /\ \E ok \in BOOLEAN :
         IF ok
         THEN /\ pipe' = "pipeline"
              /\ pipeLoads' = pipeLoads + (IF pipe = "None" THEN 1 ELSE 0)
              /\ pc' = "load_place"
              /\ UNCHANGED <<exit_status, loadFailed>>
         ELSE /\ loadFailed' = TRUE
              /\ pc' = IF caller = "self_test" THEN "st_generate" ELSE "dispatch"
              /\ UNCHANGED <<pipe, pipeLoads, exit_status>>
    /\ UNCHANGED <<mock_mode, mock_image_b64, mock_delay, output_dir, serving,
                   launch, args, todo, caller, inits, loadDone, stCall, stImg>>

\* load_model: pipe = ZImagePipeline.from_pretrained(model_id, ...)
L_FromPretrained ==
    /\ pc = "load_from_pretrained"
    /\ loadCalls' = loadCalls + 1
    /\ \E ok \in BOOLEAN :
         IF ok
         THEN /\ pipe' = "pipeline"
              /\ pipeLoads' = pipeLoads + (IF pipe = "None" THEN 1 ELSE 0)
              /\ pc' = "load_place"
              /\ UNCHANGED <<exit_status, loadFailed>>
         ELSE /\ loadFailed' = TRUE
              /\ Exit(1)
              /\ UNCHANGED <<pipe, pipeLoads>>
    /\ UNCHANGED <<mock_mode, mock_image_b64, mock_delay, output_dir, serving,
                   launch, args, todo, caller, inits, loadDone, stCall, stImg>>

\* _detect_device(): "cuda" when torch.cuda.is_available(), else "cpu"
DetectDevice(cuda_available) == IF cuda_available THEN "cuda" ELSE "cpu"

PlacePipe_AssignOffload(p, device) == IF device # "cpu" THEN p ELSE "None"

\* if device != "cpu": pipe = pipe.to(device)   (to() returns the pipeline)
\* else: pipe.enable_model_cpu_offload()        (in place, pipe not assigned)
PlacePipe(p, device) == IF device # "cpu" THEN p ELSE p

\* load_model: device = _detect_device(), the placement, return to the caller
L_Place ==
    /\ pc = "load_place"
    /\ \E cuda_available \in BOOLEAN, ok \in BOOLEAN :
         IF ok
         THEN /\ pipe' = PlacePipe(pipe, DetectDevice(cuda_available))
              /\ loadDone' = loadDone + 1
              /\ pc' = IF caller = "self_test" THEN "st_generate" ELSE "dispatch"
              /\ UNCHANGED <<exit_status, loadFailed>>
         ELSE /\ loadFailed' = TRUE
              /\ Exit(1)
              /\ UNCHANGED <<pipe, loadDone>>
    /\ UNCHANGED <<mock_mode, mock_image_b64, mock_delay, output_dir, serving,
                   launch, args, todo, caller, inits, loadCalls, pipeLoads,
                   stCall, stImg>>

\* run_self_test: result = pipe(<fixed arguments>); img = result.images[0]
ST_Generate ==
    /\ pc = "st_generate"
    /\ stCall' = [prompt |-> SelfTestPrompt, width |-> SelfTestSize,
                  height |-> SelfTestSize, steps |-> SelfTestSteps,
                  guidance_scale |-> SelfTestGuidance, seed |-> SelfTestSeed]
    /\ \E out \in PipeOutcomes(pipe, SelfTestSize, SelfTestSize) :
         IF out.kind = "ok"
         THEN stImg' = out.img /\ pc' = "st_check" /\ UNCHANGED exit_status
         ELSE Exit(1) /\ UNCHANGED stImg
    /\ UNCHANGED <<globals, serving, launch, args, todo, caller, inits,
                   loadCalls, pipeLoads, loadFailed, loadDone>>

SelfTestVerdict_WidthOnly(img) ==
    IF img.kind # "image" THEN 1
    ELSE IF img.w # SelfTestSize /\ img.h # SelfTestSize THEN 1
    ELSE 0

\* run_self_test: the isinstance check and the size check
SelfTestVerdict(img) ==
    IF img.kind # "image" THEN 1
    ELSE IF img.w # SelfTestSize \/ img.h # SelfTestSize THEN 1
    ELSE 0

\* run_self_test: the checks, img.save(out_path), sys.exit
ST_Check ==
    /\ pc = "st_check"
    /\ IF SelfTestVerdict(stImg) # 0
       THEN Exit(1) /\ UNCHANGED fs
       ELSE \E ok \in BOOLEAN :
              IF ok
              THEN /\ fs' = [p \in DOMAIN fs \cup {SelfTestOutPath} |->
                               IF p = SelfTestOutPath THEN stImg ELSE fs[p]]
                   /\ Exit(0)
              ELSE Exit(1) /\ UNCHANGED fs
    /\ UNCHANGED <<globals, clock, handlers, resp, healthResp, launch, args,
                   todo, caller, inits, loadCalls, pipeLoads, loadFailed,
                   loadDone, stCall, stImg>>

\* ------------------------------------------------------------------ serving
\* Time passes.
Tick ==
    /\ pc = "serving"
    /\ clock < MaxClock
    /\ clock' = clock + 1
    /\ UNCHANGED <<pc, globals, startup, fs, handlers, resp, healthResp>>

HealthBody_Inverted(p, m) ==
    [status |-> "ok", model_loaded |-> (p = "None"), mock |-> m]

\* health(): the response body
HealthBody(p, m) ==
    [status |-> "ok", model_loaded |-> (p # "None"), mock |-> m]

\* GET /health
Health ==
    /\ pc = "serving"
    /\ healthResp' = HealthBody(pipe, mock_mode)
    /\ UNCHANGED <<pc, globals, startup, clock, fs, handlers, resp>>

\* The exception, if any, that lines 84-97 of generate raise on a pipeline
\* outcome: the pipeline's own, IndexError on result.images[0], or
\* AttributeError on img.save when the entry is no image.
TryBodyExc(out) ==
    IF out.kind # "ok" THEN out.exc
    ELSE IF out.img.kind # "image" THEN "object has no attribute 'save'"
    ELSE ""

Branch_NoLoadedCheck(m, p) == IF m THEN "mock" ELSE "generate"

Branch_LoadedCheckFirst(m, p) ==
    IF p = "None" THEN "unloaded" ELSE IF m THEN "mock" ELSE "generate"

\* generate: if mock_mode: ... ; if pipe is None: ... ; try: ...
Branch(m, p) ==
    IF m THEN "mock" ELSE IF p = "None" THEN "unloaded" ELSE "generate"

ShouldSave_Inverted(dir) == dir = EmptyPath

\* generate: if output_dir:
ShouldSave(dir) == dir # EmptyPath

\* Requests are numbered in the order their handlers start.
MayStart(r) ==
    /\ handlers[r].pc = "idle"
    /\ \A q \in Reqs : q < r => handlers[q].pc # "idle"

\* POST /generate, from the entry of generate to the end of the in-memory
\* encoding: the mock branch, the 503 branch, and in the try block the
\* pipeline call, result.images[0] and the PNG/base64 encoding.
G_Handle(r) ==
    /\ pc = "serving"
    /\ MayStart(r)
    /\ \E req \in GenerateRequest :
         IF Branch(mock_mode, pipe) = "mock"
         THEN /\ resp' = [resp EXCEPT ![r] =
                            GenerateResponse(mock_image_b64, EmptyPath)]
              /\ handlers' = [handlers EXCEPT ![r].pc = "done"]
         ELSE IF Branch(mock_mode, pipe) = "unloaded"
         THEN /\ resp' = [resp EXCEPT ![r] =
                            HTTPException(503, "Model not loaded")]
              /\ handlers' = [handlers EXCEPT ![r].pc = "done"]
         ELSE \E out \in PipeOutcomes(pipe, req.width, req.height) :
                IF TryBodyExc(out) # ""
                THEN /\ resp' = [resp EXCEPT ![r] =
                                   HTTPException(500, TryBodyExc(out))]
                     /\ handlers' = [handlers EXCEPT
                                       ![r].pc = "done",
                                       ![r].invoked = TRUE,
                                       ![r].exc = TryBodyExc(out)]
                ELSE /\ handlers' = [handlers EXCEPT
                                       ![r].pc = "save",
                                       ![r].invoked = TRUE,
                                       ![r].width = req.width,
                                       ![r].height = req.height,
                                       ![r].img = out.img]
                     /\ UNCHANGED resp
    /\ UNCHANGED <<pc, globals, startup, clock, fs, healthResp>>

SaveErrors == {"No space left on device"}

G_Save_Uncaught(r) ==
    /\ pc = "serving"
    /\ handlers[r].pc = "save"
    /\ LET h == handlers[r]
           b64 == Encode(h.img)
           saved_path == SavedPath(output_dir, Strftime(clock), h.width, h.height)
           done == [h EXCEPT !.pc = "done", !.width = 0, !.height = 0,
                             !.img = NoImage]
       IN  IF ~ShouldSave(output_dir)
           THEN /\ resp' = [resp EXCEPT ![r] = GenerateResponse(b64, EmptyPath)]
                /\ handlers' = [handlers EXCEPT ![r] = done]
                /\ UNCHANGED fs
           ELSE \/ /\ fs' = [p \in DOMAIN fs \cup {saved_path} |->
                               IF p = saved_path THEN h.img ELSE fs[p]]
                   /\ resp' = [resp EXCEPT ![r] = GenerateResponse(b64, saved_path)]
                   /\ handlers' = [handlers EXCEPT ![r] =
                                     [done EXCEPT !.wrote = {saved_path}]]
                \/ \E m \in SaveErrors :
                     /\ UNCHANGED fs
                     /\ resp' = [resp EXCEPT ![r] =
                                   HTTPException(500, "Internal Server Error")]
                     /\ handlers' = [handlers EXCEPT ![r] = [done EXCEPT !.exc = m]]
    /\ UNCHANGED <<pc, globals, startup, clock, healthResp>>

\* generate, from saved_path = "" to the return, and the except clause: the
\* file name, img.save(saved_path) (which may fail before or after the file
\* is opened for writing), the response.
G_Save(r) ==
    /\ pc = "serving"
    /\ handlers[r].pc = "save"
    /\ LET h == handlers[r]
           b64 == Encode(h.img)
           saved_path == SavedPath(output_dir, Strftime(clock), h.width, h.height)
           done == [h EXCEPT !.pc = "done", !.width = 0, !.height = 0,
                             !.img = NoImage]
       IN  IF ~ShouldSave(output_dir)
           THEN /\ resp' = [resp EXCEPT ![r] = GenerateResponse(b64, EmptyPath)]
                /\ handlers' = [handlers EXCEPT ![r] = done]
                /\ UNCHANGED fs
           ELSE \/ /\ fs' = [p \in DOMAIN fs \cup {saved_path} |->
                               IF p = saved_path THEN h.img ELSE fs[p]]
                   /\ resp' = [resp EXCEPT ![r] = GenerateResponse(b64, saved_path)]
                   /\ handlers' = [handlers EXCEPT ![r] =
                                     [done EXCEPT !.wrote = {saved_path}]]
                \/ \E m \in SaveErrors, opened \in BOOLEAN :
                     /\ IF opened
                        THEN fs' = [p \in DOMAIN fs \cup {saved_path} |->
                                      IF p = saved_path THEN Truncated ELSE fs[p]]
                        ELSE UNCHANGED fs
                     /\ resp' = [resp EXCEPT ![r] = HTTPException(500, m)]
                     /\ handlers' = [handlers EXCEPT ![r] =
                                       [done EXCEPT !.exc = m,
                                                    !.wrote = IF opened
                                                              THEN {saved_path}
                                                              ELSE {}]]
    /\ UNCHANGED <<pc, globals, startup, clock, healthResp>>

Next ==
    \/ AppServed
    \/ Main_OutputDir
    \/ Main_SelectMode
    \/ Main_RunSelfTest
    \/ Main_InitMock
    \/ Main_LoadModel
    \/ Main_RunServer
    \/ L_FromPretrained
    \/ L_Place
    \/ ST_Generate
    \/ ST_Check
    \/ Tick
    \/ Health
    \/ \E r \in Reqs : G_Handle(r)
    \/ \E r \in Reqs : G_Save(r)

Spec == Init /\ [][Next]_vars

\* ------------------------------------------------------------------- claims
Handled(r) == resp[r].status # 0

Succeeded(r) == resp[r].status = 200

Unavailable == HTTPException(503, "Model not loaded")

\* C1 as stated: whenever POST /generate has been handled while the pipeline
\* handle is absent, the response is the 503 error 'Model not loaded', the
\* pipeline was not invoked and no file was written.
C1_AbsentHandleGives503 ==
    \A r \in Reqs :
        Handled(r) /\ pipe = "None" =>
            /\ resp[r] = Unavailable
            /\ ~handlers[r].invoked
            /\ handlers[r].wrote = {}

\* C1 amended: whenever POST /generate has been handled while the pipeline
\* handle is absent and mock mode is off, the response is the 503 error
\* 'Model not loaded', the pipeline was not invoked and no file was written.
C1_UnloadedGives503 ==
    \A r \in Reqs :
        Handled(r) /\ pipe = "None" /\ ~mock_mode =>
            /\ resp[r] = Unavailable
            /\ ~handlers[r].invoked
            /\ handlers[r].wrote = {}
            /\ fs = [p \in {} |-> NoImage]

C1_Witness ==
    /\ pipe = "None" /\ ~mock_mode
    /\ \A r \in Reqs : resp[r].status = 503

\* C2: in mock mode every POST /generate response is the same whatever the
\* request body and however many requests came before: status 200, image the
\* encoding of the 64x64 placeholder prepared by init_mock, mime_type
\* 'image/png'; the pipeline is never invoked.
C2_MockResponseFixed ==
    mock_mode =>
        /\ mock_image_b64 = Encode(MockImage)
        /\ mock_image_b64.w = 64 /\ mock_image_b64.h = 64
        /\ \A r \in Reqs :
             /\ ~handlers[r].invoked
             /\ handlers[r].pc \in {"idle", "done"}
             /\ Handled(r) =>
                  /\ resp[r].status = 200
                  /\ resp[r].image = [fmt |-> "b64png", w |-> 64, h |-> 64,
                                      content |-> "cornflower"]
                  /\ resp[r].mime_type = "image/png"
        /\ \A r, q \in Reqs : Handled(r) /\ Handled(q) => resp[r] = resp[q]

C2_Witness ==
    /\ mock_mode
    /\ \A r \in Reqs : Succeeded(r)

\* C3 as stated: for every successful POST /generate response, a configured
\* output directory gives a non-empty file_path, and an omitted output
\* directory option gives the empty file_path.
C3_FilePathFollowsOption ==
    \A r \in Reqs :
        Succeeded(r) =>
            /\ output_dir # EmptyPath => resp[r].file_path # EmptyPath
            /\ args.output_dir = "omitted" => resp[r].file_path = EmptyPath

\* C3 amended: for every successful POST /generate response, file_path is
\* non-empty exactly when mock mode is off and the output_dir global is
\* non-empty (it is then a path under output_dir); a process started from the
\* command line serves only with a non-empty output_dir, the default
\* directory when --output-dir is omitted.
C3_FilePathFollowsOutputDir ==
    /\ \A r \in Reqs :
         Succeeded(r) =>
            /\ resp[r].file_path # EmptyPath <=> (~mock_mode /\ output_dir # EmptyPath)
            /\ resp[r].file_path # EmptyPath =>
                 SubSeq(resp[r].file_path, 1, Len(output_dir)) = output_dir
    /\ launch = "cli" /\ pc = "serving" =>
         /\ output_dir # EmptyPath
         /\ args.output_dir = "omitted" => output_dir = DefaultOutputDir

C3_Witness ==
    /\ launch = "cli" /\ args.output_dir = "omitted" /\ ~mock_mode
    /\ \E r \in Reqs : Succeeded(r) /\ resp[r].file_path # EmptyPath

\* C4: with a model loaded and mock mode off, an exception raised at any step
\* of a generation (pipeline call, first image, PNG encoding, saving the
\* file) ends the request with a 500 error whose detail is the exception's
\* message; that request gets no success response, and every 500 response
\* comes from such an exception.
C4_ExceptionsBecome500 ==
    \A r \in Reqs :
        /\ handlers[r].exc # "" => resp[r] = HTTPException(500, handlers[r].exc)
        /\ resp[r].status = 500 => handlers[r].exc # "" /\ pipe # "None" /\ ~mock_mode
        /\ Succeeded(r) => handlers[r].exc = ""

C4_Witness ==
    /\ pipe # "None" /\ ~mock_mode
    /\ \E r, q \in Reqs :
         /\ handlers[r].exc \in SaveErrors /\ resp[r].status = 500
         /\ handlers[q].exc \notin SaveErrors \cup {""} /\ resp[q].status = 500

C6_OneStartupMode ==
    /\ Cardinality(inits) <= 1
    /\ launch = "cli" /\ pc \notin {"main", "select", "exited"}
         /\ ~(pc = "dispatch" /\ todo # <<>>) => Cardinality(inits) = 1
    /\ ~args.self_test /\ ~args.mock => inits \subseteq {"normal"}
    /\ ~args.self_test /\ args.mock => inits \subseteq {"mock"}
    /\ args.self_test /\ ~args.mock => inits \subseteq {"self_test"}
    /\ "self_test" \in inits =>
         /\ pc \in {"load_from_pretrained", "load_place", "st_generate",
                    "st_check", "exited"}
         /\ ~mock_mode
         /\ loadCalls <= 1
    /\ "mock" \in inits =>
         /\ loadCalls = 0 /\ pipe = "None" /\ stCall = NoCall
         /\ mock_mode
    /\ "normal" \in inits =>
         /\ ~mock_mode /\ stCall = NoCall
         /\ pc \in {"dispatch", "serving"} => loadCalls = 1 /\ loadDone = 1
    /\ pc = "serving" /\ launch = "cli" => inits \in {{"mock"}, {"normal"}}

C6_Witness ==
    /\ args.self_test /\ args.mock
    /\ inits = {"self_test"}
    /\ pc = "exited" /\ exit_status = 0

\* C7: a failed load_model ends the process with status 1; a process started
\* from the command line serves requests only in mock mode or with the
\* pipeline handle present, and in normal mode only after load_model
\* returned.
C7_LoadFailureIsFatal ==
    /\ loadFailed => pc = "exited" /\ exit_status = 1
    /\ launch = "cli" /\ pc = "serving" =>
         /\ mock_mode \/ pipe # "None"
         /\ ~mock_mode => loadDone = 1 /\ pipe # "None"

C7_Witness ==
    /\ launch = "cli" /\ pc = "serving" /\ ~mock_mode
    /\ \E r \in Reqs : Succeeded(r)

\* C8: a self-test run exits with status 0 only if its single generation
\* (fixed prompt, seed 42, 512x512 requested) returned an image of size
\* exactly 512x512; when the output is no image or its width or height is not
\* 512 the exit status is non-zero.
C8_SelfTestExitStatus ==
    /\ exit_status = 0 =>
         /\ inits = {"self_test"}
         /\ stImg.kind = "image" /\ stImg.w = 512 /\ stImg.h = 512
         /\ stCall = [prompt |-> "a red circle on a white background",
                      width |-> 512, height |-> 512, steps |-> 28,
                      guidance_scale |-> 4, seed |-> 42]
         /\ SelfTestOutPath \in DOMAIN fs /\ fs[SelfTestOutPath] = stImg
    /\ pc = "exited" /\ stImg # NoImage
         /\ (stImg.kind # "image" \/ stImg.w # 512 \/ stImg.h # 512)
         => exit_status = 1

C8_Witness ==
    /\ pc = "exited" /\ exit_status = 1
    /\ stImg.kind = "image" /\ stImg.w = 512 /\ stImg.h # 512

\* C9: GET /health returns status 'ok', model_loaded equal to whether the
\* pipeline handle is present (false before any load and in mock mode) and
\* mock equal to the mock-mode flag, and the step that produces the response
\* changes nothing else.
C9_HealthReportsState ==
    /\ [](healthResp # NoHealth =>
            /\ healthResp.status = "ok"
            /\ healthResp.model_loaded = (pipe # "None")
            /\ healthResp.mock = mock_mode
            /\ loadCalls = 0 => ~healthResp.model_loaded
            /\ mock_mode => ~healthResp.model_loaded)
    /\ [][healthResp' # healthResp =>
            UNCHANGED <<pc, globals, startup, clock, fs, handlers, resp>>]_vars

C9_Witness ==
    /\ launch = "import"
    /\ healthResp = [status |-> "ok", model_loaded |-> FALSE, mock |-> FALSE]
    /\ \A r \in Reqs : Handled(r)

\* C10: no two generate handlers write the same location, and the file named
\* by the file_path of each successful response holds the image of that
\* response.
C10_EachFileHoldsOwnImage ==
    /\ \A r, q \in Reqs :
         r # q => handlers[r].wrote \cap handlers[q].wrote = {}
    /\ \A r \in Reqs :
         Succeeded(r) /\ resp[r].file_path # EmptyPath =>
            /\ resp[r].file_path \in DOMAIN fs
            /\ Encode(fs[resp[r].file_path]) = resp[r].image

====
